---- MODULE Spec2Model ----
(***************************************************************************)
(* Model of custom_components/bticino_x8000/config_flow.py:                *)
(* BticinoX8000ConfigFlow, the onboarding flow of the Bticino X8000        *)
(* integration.  Each flow handler (async_step_user,                       *)
(* async_step_get_authorize_code, async_step_select_thermostats) is one    *)
(* action; several flows (sessions) may be in progress at once and their   *)
(* handler invocations interleave.                                         *)
(***************************************************************************)
EXTENDS Integers, Sequences, FiniteSets, TLC

(* ------------------------------ bounds -------------------------------- *)

\* longest raw plant listing returned by get_plants
MaxListing == 2
\* most devices in one plant's topology
MaxDevices == 2
\* longest program list handed to the program filter on its own
MaxPrograms == 4
\* largest program number in such a list
MaxProgramNumber == 2

\* flows that may be in progress at the same time
Sessions == {"s1", "s2"}

(* ------------------------- program constants -------------------------- *)

HTTP_OK == 200
HTTP_CREATED == 201
\* a status the remote API answers when it does not succeed
HTTP_ERROR == 500
\* program["number"] of the reserved program dropped by the filter
MANUAL_PROGRAM == 0

WEBHOOK_PATH == "/api/webhook/"
DEFAULT_REDIRECT_URI == "DEFAULT_REDIRECT_URI"

(* --------------------------- Python values ---------------------------- *)

\* Optional values: None is the empty tuple, a present value x is <<x>>.
None == <<>>
Some(x) == <<x>>

\* a dict key that has not been set
Missing == "<missing>"

Range(f) == {f[i] : i \in DOMAIN f}

SeqsUpTo(S, n) == UNION {[1..k -> S] : k \in 0..n}

\* all orders in which the elements of a set can be listed
Perms(S) == {f \in [1..Cardinality(S) -> S] : Range(f) = S}

(* ----------------------------- user inputs ---------------------------- *)

\* what the user can type into the credentials form (user_input of
\* async_step_user)
CredentialInputs ==
    { [client_id |-> "cid1", client_secret |-> "sec1",
       subscription_key |-> "key1", external_url |-> "https://ha1"],
      [client_id |-> "cid2", client_secret |-> "sec2",
       subscription_key |-> "key2", external_url |-> "https://ha2"] }

\* self.data: the submitted credentials plus the keys the later steps add
NewData(c) ==
    [client_id |-> c.client_id, client_secret |-> c.client_secret,
     subscription_key |-> c.subscription_key, external_url |-> c.external_url,
     code |-> Missing, access_token |-> Missing, refresh_token |-> Missing,
     access_token_expires_on |-> Missing]

\* the query string of a pasted browser URL: a list of key=value pairs
Pair(k, v) == [k |-> k, v |-> v]
BrowserUrls ==
    { <<>>,
      <<Pair("code", "ABC")>>,
      <<Pair("state", "XYZ")>>,
      <<Pair("code", ""), Pair("state", "XYZ")>>,
      <<Pair("code", "ABC"), Pair("state", "")>>,
      <<Pair("code", "ABC"), Pair("state", "XYZ")>>,
      <<Pair("state", "st1"), Pair("code", "ABC")>> }

\* values secrets.token_hex(16) may return
StateTokens == {"st1"}

(* --------------------------- the remote API --------------------------- *)

Plants == {"p1", "p2"}

\* device k of plant p as the topology lists it
DeviceName(p, k) ==
    IF p = "p1" THEN (IF k % 2 = 1 THEN "Living Room" ELSE "Bedroom")
    ELSE "Living Room"
Device(p, k) == [id |-> <<p, k>>, name |-> DeviceName(p, k)]

Program(n) == [number |-> n, name |-> IF n = 0 THEN "manual" ELSE "prog"]

\* the program list the remote API holds for a device
ProgramList(dev) ==
    IF dev.id[2] % 2 = 1
    THEN <<Program(0), Program(1), Program(2)>>
    ELSE <<Program(0)>>

\* TokenSets the token endpoint may answer
TokenSets ==
    { [access_token |-> "tok_a", refresh_token |-> "tok_r",
       access_token_expires_on |-> "2025-01-01T00:00:00Z"] }


\* what exchange_code_for_tokens may do: return a TokenSet or fail
ExchangeOutcomes ==
    {[ok |-> FALSE, tokens |-> None]} \cup
    {[ok |-> TRUE, tokens |-> Some(t)] : t \in TokenSets}

\* a remote call as the flow issued it, with the answer it got
\* args: the call's arguments in order; status: the status code answered;
\* sid: the subscriptionId answered, if any
Call(op, args, status, sid) ==
    [op |-> op, args |-> args, status |-> status, sid |-> sid]

(* ------------------------------- state -------------------------------- *)

VARIABLES
    flows,               \* the flows the platform has in progress
    entries,             \* self._async_current_entries(): the ConfigRecords
    remote,              \* the account at the remote API: raw plant listing
                         \* and the number of devices of each listed plant
    next_webhook,        \* generate_id(): the next fresh webhook id
    next_sub,            \* the next subscriptionId the remote API hands out
    cur_step,            \* per flow: the form the flow is waiting at
    result,              \* per flow: the FlowResult of its last handler
    data,                \* per flow: self.data
    thermostat_options,  \* per flow: self._thermostat_options
    calls,               \* per flow: remote calls of its last handler
    input,               \* per flow: handler last invoked and its user_input
    submitted,           \* per flow: the form the user last submitted at the
                         \* credentials step
    granted,             \* per flow: what the flow's last successful token
                         \* exchange returned
    pf_programs,         \* program filter on its own: the API's program list
    pf_filtered          \* program filter on its own: the list returned

flowVars == <<cur_step, result, data, thermostat_options, calls, input,
              submitted, granted>>
pfVars == <<pf_programs, pf_filtered>>
vars == <<flows, entries, remote, next_webhook, next_sub, cur_step, result, data,
          thermostat_options, calls, input, submitted, granted, pf_programs,
          pf_filtered>>

(* --------------------------- flow results ----------------------------- *)

NoAuthUrl == [client_id |-> "", response_type |-> "", state |-> "",
              redirect_uri |-> ""]
FlowResult(type, id, options, default, url) ==
    [type |-> type, id |-> id, options |-> options, default |-> default,
     auth_url |-> url]
NoResult == FlowResult("none", "", <<>>, <<>>, NoAuthUrl)
\* self.async_abort(reason=...)
async_abort(reason) == FlowResult("abort", reason, <<>>, <<>>, NoAuthUrl)
\* self.async_show_form(step_id=...)
async_show_form(step_id, options, default, url) ==
    FlowResult("form", step_id, options, default, url)
\* an exception no handler catches leaves the step
UnhandledError(kind) == FlowResult("error", kind, <<>>, <<>>, NoAuthUrl)
CreateEntryResult == FlowResult("create_entry", "Bticino X8000", <<>>, <<>>, NoAuthUrl)

\* a created entry leaving the flow at its form
StepAfter_open(step, r) ==
    IF r.type = "form" THEN r.id
    ELSE IF r.type = "abort" THEN "finished"
    ELSE step

\* the form a flow waits at after a handler returned r
StepAfter(step, r) ==
    IF r.type = "form" THEN r.id
    ELSE IF r.type \in {"abort", "create_entry"} THEN "finished"
    ELSE step

\* what is recorded of a flow's last handler invocation: the handler, its
\* user_input (the field that fits the handler), and what
\* self._async_current_entries() and self.data were when it was entered
NoInput == [handler |-> "none", had_entries |-> FALSE, data_before |-> None,
            user_input |-> None, browser_url |-> <<>>, selected |-> {}]


(* ------------------------- pure helper functions ---------------------- *)

\* urllib.parse.parse_qs: key -> list of its values in order; a pair with a
\* blank value is dropped (keep_blank_values defaults to False)
parse_qs(query) ==
    LET kept == SelectSeq(query, LAMBDA q : q.v # "")
        keys == {kept[i].k : i \in DOMAIN kept}
        vals(key) == SelectSeq(kept, LAMBDA q : q.k = key)
    IN  [key \in keys |-> [i \in DOMAIN vals(key) |-> vals(key)[i].v]]

\* dict.get(key, default)
DictGet(d, key, default) == IF key \in DOMAIN d THEN d[key] ELSE default

\* code = query_params.get("code", [""])[0]
QueryCode(browser_url) == DictGet(parse_qs(browser_url), "code", <<"">>)[1]
\* the returned state counted as missing unless it is a token the flow
\* can have generated
QueryState_crosschecked(browser_url) ==
    LET state == DictGet(parse_qs(browser_url), "state", <<"">>)[1]
    IN  IF state \in StateTokens THEN state ELSE ""

\* state = query_params.get("state", [""])[0]
QueryState(browser_url) == DictGet(parse_qs(browser_url), "state", <<"">>)[1]

\* get_authorization_url: the URL built around a fresh state token
get_authorization_url(user_input, state) ==
    [client_id |-> user_input.client_id, response_type |-> "code",
     state |-> state, redirect_uri |-> DEFAULT_REDIRECT_URI]

\* the filter dropping the first program when it is the manual one
FilterPrograms_first(programs) ==
    IF programs # <<>> /\ Head(programs).number = MANUAL_PROGRAM
    THEN Tail(programs) ELSE programs

\* filtered_programs of get_programs_from_api
FilterPrograms(programs) ==
    SelectSeq(programs, LAMBDA program : program.number # MANUAL_PROGRAM)

\* get_programs_from_api(plant_id, topology_id), the remote API answering
\* programs_data: the list returned and the call made
get_programs_from_api(plant_id, topology_id, programs_data) ==
    [ret |-> FilterPrograms(programs_data),
     call |-> Call("get_chronothermostat_programlist",
                   <<plant_id, topology_id>>, HTTP_OK, None)]

\* thermostat_options.update({key: value}) on an insertion-ordered dict,
\* held as a list of [key, value] items
DictUpdate(d, key, value) ==
    IF \E i \in DOMAIN d : d[i].key = key
    THEN [i \in DOMAIN d |-> IF d[i].key = key
                             THEN [key |-> key, value |-> value] ELSE d[i]]
    ELSE Append(d, [key |-> key, value |-> value])

\* the remote API's answer to get_topology(plant_id)
Topology(rem, plant_id) ==
    [k \in 1..rem.ndev[plant_id] |-> Device(plant_id, k)]

\* [thermostat_options[thermo]["name"] for thermo in thermostat_options]
OptionNames(options) == [i \in DOMAIN options |-> options[i].value.name]

(* ------------------------- discovery (lines 146-166) ------------------ *)

\* the device loop with the webhook id minted once, outside the loops, and
\* given to every device
RECURSIVE ThermoLoop_hoisted(_, _, _)
ThermoLoop_hoisted(plant_id, thermos, acc) ==
    IF thermos = <<>> THEN acc
    ELSE LET thermo == Head(thermos)
             got == get_programs_from_api(plant_id, thermo.id,
                                          ProgramList(thermo))
             candidate == [id |-> thermo.id, name |-> thermo.name,
                           webhook_id |-> acc.wid, programs |-> got.ret]
         IN  ThermoLoop_hoisted(plant_id, Tail(thermos),
                 [options |-> DictUpdate(acc.options, plant_id, candidate),
                  wid |-> acc.wid,
                  calls |-> Append(acc.calls, got.call)])

\* for thermo in topologies["data"]: mint a webhook id, fetch and filter
\* the programs, store the candidate under the plant's key.
\* acc = [options, wid, calls]
RECURSIVE ThermoLoop(_, _, _)
ThermoLoop(plant_id, thermos, acc) ==
    IF thermos = <<>> THEN acc
    ELSE LET thermo == Head(thermos)
             webhook_id == acc.wid
             got == get_programs_from_api(plant_id, thermo.id,
                                          ProgramList(thermo))
             candidate == [id |-> thermo.id, name |-> thermo.name,
                           webhook_id |-> webhook_id, programs |-> got.ret]
         IN  ThermoLoop(plant_id, Tail(thermos),
                 [options |-> DictUpdate(acc.options, plant_id, candidate),
                  wid |-> acc.wid + 1,
                  calls |-> Append(acc.calls, got.call)])

\* the device loops of the plants one after another, no topology asked
RECURSIVE DeviceLoops(_, _, _)
DeviceLoops(rem, plant_ids, acc) ==
    IF plant_ids = <<>> THEN acc
    ELSE DeviceLoops(rem, Tail(plant_ids),
             ThermoLoop(Head(plant_ids), Topology(rem, Head(plant_ids)), acc))

\* discovery asking for the topology of every plant at once, before the
\* program lists of any
PlantLoop_batched(rem, plant_ids, acc) ==
    DeviceLoops(rem, plant_ids,
        [acc EXCEPT !.calls = @ \o
            [i \in DOMAIN plant_ids |->
                Call("get_topology", <<plant_ids[i]>>, HTTP_OK, None)]])

\* discovery stopping after the first plant of the list
PlantLoop_first(rem, plant_ids, acc) ==
    IF plant_ids = <<>> THEN acc
    ELSE LET plant_id == Head(plant_ids)
             asked == [acc EXCEPT !.calls = Append(acc.calls,
                          Call("get_topology", <<plant_id>>, HTTP_OK, None))]
         IN  ThermoLoop(plant_id, Topology(rem, plant_id), asked)

\* for plant_id in plant_ids: query the topology, then run the device loop
RECURSIVE PlantLoop(_, _, _)
PlantLoop(rem, plant_ids, acc) ==
    IF plant_ids = <<>> THEN acc
    ELSE LET plant_id == Head(plant_ids)
             asked == [acc EXCEPT !.calls = Append(acc.calls,
                          Call("get_topology", <<plant_id>>, HTTP_OK, None))]
         IN  PlantLoop(rem, Tail(plant_ids),
                 ThermoLoop(plant_id, Topology(rem, plant_id), asked))

\* plant_ids taken from the listing as it comes, duplicates and all
PlantIdOrders_raw(listing) == {listing}

\* plant_ids = list(set(plant["id"] for plant in plants_data["data"])):
\* the lists it may be, a set iterating in no particular order
PlantIdOrders(listing) == Perms(Range(listing))

(* --------------------------- the handlers ----------------------------- *)

\* async_step_user looking for an existing configuration only when it is
\* about to show the credentials form
async_step_user_late_check(has_entries, self_data, user_input, state) ==
    IF user_input = None
    THEN IF has_entries
         THEN [result |-> async_abort("single_instance_allowed"),
               data |-> self_data]
         ELSE [result |-> async_show_form("user", <<>>, <<>>, NoAuthUrl),
               data |-> self_data]
    ELSE [result |-> async_show_form("get_authorize_code", <<>>, <<>>,
                         get_authorization_url(user_input[1], state)),
          data |-> user_input]

\* async_step_user(user_input): [result, data]
async_step_user(has_entries, self_data, user_input, state) ==
    IF has_entries
    THEN [result |-> async_abort("single_instance_allowed"), data |-> self_data]
    ELSE IF user_input = None
    THEN [result |-> async_show_form("user", <<>>, <<>>, NoAuthUrl),
          data |-> self_data]
    ELSE [result |-> async_show_form("get_authorize_code", <<>>, <<>>,
                         get_authorization_url(user_input[1], state)),
          data |-> user_input]


\* exchange_code_for_tokens: returns the TokenSet, or fails with an error
\* that async_step_get_authorize_code handles in its except clause
exchange_code_for_tokens(client_id, client_secret, redirect_uri, code, outcome) ==
    [raised |-> ~outcome.ok,
     tokens |-> outcome.tokens,
     call |-> Call("exchange_code_for_tokens",
                   <<client_id, client_secret, redirect_uri, code>>,
                   IF outcome.ok THEN HTTP_OK ELSE HTTP_ERROR, None)]

\* the except clause restarting the flow at the credentials form
ReEnter_restart(has_entries, self_data, state) ==
    async_step_user(has_entries, Some(self_data), None, state)

\* lines 189-192: except ValueError -> async_step_get_authorize_code() with
\* no input -> async_step_user(self.data)
ReEnter(has_entries, self_data, state) ==
    async_step_user(has_entries, Some(self_data), Some(self_data), state)

\* discovery showing its form under a step id no handler answers to
DiscoverAndPrompt_misnamed(self_data, self_options, wid, rem, env, calls0) ==
    LET calls1 == Append(calls0, Call("get_plants", <<>>, env.status, None))
    IN  IF env.status = HTTP_OK
        THEN LET acc == PlantLoop(rem, env.plant_ids,
                            [options |-> <<>>, wid |-> wid, calls |-> calls1])
             IN  [result |-> async_show_form("select_thermostat",
                                 OptionNames(acc.options),
                                 OptionNames(acc.options), NoAuthUrl),
                  data |-> Some(self_data), options |-> Some(acc.options),
                  wid |-> acc.wid, calls |-> acc.calls]
        ELSE [result |-> UnhandledError("UnboundLocalError"),
              data |-> Some(self_data), options |-> self_options,
              wid |-> wid, calls |-> calls1]

\* lines 146-187, after the health check: list the plants, discover the
\* devices of every distinct plant, show the selection form
DiscoverAndPrompt(self_data, self_options, wid, rem, env, calls0) ==
    LET calls1 == Append(calls0, Call("get_plants", <<>>, env.status, None))
    IN  IF env.status = HTTP_OK
        THEN LET acc == PlantLoop(rem, env.plant_ids,
                            [options |-> <<>>, wid |-> wid, calls |-> calls1])
             IN  [result |-> async_show_form("select_thermostats",
                                 OptionNames(acc.options),
                                 OptionNames(acc.options), NoAuthUrl),
                  data |-> Some(self_data), options |-> Some(acc.options),
                  wid |-> acc.wid, calls |-> acc.calls]
        \* thermostat_options is unbound at line 176
        ELSE [result |-> UnhandledError("UnboundLocalError"),
              data |-> Some(self_data), options |-> self_options,
              wid |-> wid, calls |-> calls1]

\* the health check made and its answer not looked at
CheckHealthAndDiscover_ignore(self_data, self_options, wid, rem, env, calls0) ==
    DiscoverAndPrompt(self_data, self_options, wid, rem, env,
        Append(calls0, Call("check_api_endpoint_health", <<>>,
                   IF env.health THEN HTTP_OK ELSE HTTP_ERROR, None)))

\* lines 140-146: build the API client and check its health; abort the
\* flow when the check fails, else go on to discovery
CheckHealthAndDiscover(self_data, self_options, wid, rem, env, calls0) ==
    LET calls1 == Append(calls0,
                      Call("check_api_endpoint_health", <<>>,
                           IF env.health THEN HTTP_OK ELSE HTTP_ERROR, None))
    IN  IF ~env.health
        THEN [result |-> async_abort("Auth Failed!"),
              data |-> Some(self_data), options |-> self_options,
              wid |-> wid, calls |-> calls1]
        ELSE DiscoverAndPrompt(self_data, self_options, wid, rem, env, calls1)

\* a failed exchange aborting the flow
OnExchangeError_abort(has_entries, self_data, self_options, wid, state, calls0) ==
    [result |-> async_abort("Auth Failed!"), data |-> Some(self_data),
     options |-> self_options, wid |-> wid, calls |-> calls0]

\* the step when the exchange has failed: the except clause re-enters the
\* flow, nothing else of the try block runs
OnExchangeError(has_entries, self_data, self_options, wid, state, calls0) ==
    LET back == ReEnter(has_entries, self_data, state)
    IN  [result |-> back.result, data |-> back.data,
         options |-> self_options, wid |-> wid, calls |-> calls0]

\* async_step_get_authorize_code(user_input) with user_input given:
\* [result, data, options, wid, calls].
\* env = [exchange, health, status, plant_ids, state]: what the token
\* endpoint, the remote API, the set iteration order and the random state
\* token turn out to be during this invocation
async_step_get_authorize_code(has_entries, self_data, self_options, wid, rem, browser_url, env) ==
    LET code == QueryCode(browser_url)
        state == QueryState(browser_url)
        d0 == self_data[1]
    IN  IF code = "" \/ state = ""
        THEN \* raise ValueError (line 119)
             LET back == ReEnter(has_entries, d0, env.state)
             IN  [result |-> back.result, data |-> back.data,
                  options |-> self_options, wid |-> wid, calls |-> <<>>]
        ELSE
        LET d1 == [d0 EXCEPT !.code = code]
            ex == exchange_code_for_tokens(d1.client_id, d1.client_secret,
                                           DEFAULT_REDIRECT_URI, code,
                                           env.exchange)
        IN  IF ex.raised
            THEN OnExchangeError(has_entries, d1, self_options, wid,
                                 env.state, <<ex.call>>)
            ELSE
            LET t == ex.tokens[1]
                d2 == [d1 EXCEPT !.access_token = t.access_token,
                                 !.refresh_token = t.refresh_token,
                                 !.access_token_expires_on =
                                     t.access_token_expires_on]
            IN  CheckHealthAndDiscover(d2, self_options, wid, rem, env,
                                       <<ex.call>>)

(* ------------------- subscription (lines 194-249) --------------------- *)

\* add_c2c_subscription reading the subscriptionId without looking at the
\* status code
add_c2c_subscription_unchecked(self_data, plantId, webhook_id, status, sub) ==
    [ret |-> Some(sub),
     call |-> Call("set_subscribe_C2C_notifications",
                   <<plantId, [EndPointUrl |->
                       [base |-> self_data.external_url, path |-> WEBHOOK_PATH,
                        webhook_id |-> webhook_id]]>>,
                   status, IF status = HTTP_CREATED THEN Some(sub) ELSE None)]

\* add_c2c_subscription building the delivery URL on the redirect URI of
\* the authorization instead of external_url
add_c2c_subscription_redirect(self_data, plantId, webhook_id, status, sub) ==
    LET webhook_endpoint == [base |-> DEFAULT_REDIRECT_URI,
                             path |-> WEBHOOK_PATH,
                             webhook_id |-> webhook_id]
        created == status = HTTP_CREATED
    IN  [ret |-> IF created THEN Some(sub) ELSE None,
         call |-> Call("set_subscribe_C2C_notifications",
                       <<plantId, [EndPointUrl |-> webhook_endpoint]>>,
                       status, IF created THEN Some(sub) ELSE None)]

\* add_c2c_subscription(plantId, webhook_id), the remote API answering
\* `status` and, on 201, the subscriptionId `sub`
add_c2c_subscription(self_data, plantId, webhook_id, status, sub) ==
    LET webhook_endpoint == [base |-> self_data.external_url,
                             path |-> WEBHOOK_PATH,
                             webhook_id |-> webhook_id]
        created == status = HTTP_CREATED
    IN  [ret |-> IF created THEN Some(sub) ELSE None,
         call |-> Call("set_subscribe_C2C_notifications",
                       <<plantId, [EndPointUrl |-> webhook_endpoint]>>,
                       status, IF created THEN Some(sub) ELSE None)]

\* the list comprehension of lines 225-236 over
\* self._thermostat_options.items().  acc = [list, sub, calls]
RECURSIVE SubscribeLoop(_, _, _, _, _)
SubscribeLoop(self_data, items, selected, statuses, acc) ==
    IF items = <<>> THEN acc
    ELSE LET thermo_id == Head(items).key
             thermo_data == Head(items).value
         IN  IF thermo_data.name \in selected
             THEN LET status == statuses[thermo_id]
                      got == add_c2c_subscription(self_data, thermo_id,
                                 thermo_data.webhook_id, status, acc.sub)
                      item == [key |-> thermo_id,
                               value |-> [id |-> thermo_data.id,
                                          name |-> thermo_data.name,
                                          webhook_id |-> thermo_data.webhook_id,
                                          programs |-> thermo_data.programs,
                                          subscription_id |-> got.ret]]
                  IN  SubscribeLoop(self_data, Tail(items), selected, statuses,
                          [list |-> Append(acc.list, item),
                           sub |-> IF status = HTTP_CREATED
                                   THEN acc.sub + 1 ELSE acc.sub,
                           calls |-> Append(acc.calls, got.call)])
             ELSE SubscribeLoop(self_data, Tail(items), selected, statuses, acc)

\* the entry's data with the client id written where the client secret goes
EntryData_swapped(self_data, selected_thermostats) ==
    [client_id |-> self_data.client_id,
     client_secret |-> self_data.client_id,
     subscription_key |-> self_data.subscription_key,
     external_url |-> self_data.external_url,
     access_token |-> self_data.access_token,
     refresh_token |-> self_data.refresh_token,
     access_token_expires_on |-> self_data.access_token_expires_on,
     selected_thermostats |-> selected_thermostats]

\* the data of the entry created at lines 237-249
EntryData(self_data, selected_thermostats) ==
    [client_id |-> self_data.client_id,
     client_secret |-> self_data.client_secret,
     subscription_key |-> self_data.subscription_key,
     external_url |-> self_data.external_url,
     access_token |-> self_data.access_token,
     refresh_token |-> self_data.refresh_token,
     access_token_expires_on |-> self_data.access_token_expires_on,
     selected_thermostats |-> selected_thermostats]

\* the step subscribing and recording every candidate, whatever was selected
async_step_select_thermostats_all(self_data, self_options, selected, statuses, sub) ==
    LET every == Range(OptionNames(self_options[1]))
        acc == SubscribeLoop(self_data[1], self_options[1], every, statuses,
                             [list |-> <<>>, sub |-> sub, calls |-> <<>>])
    IN  [result |-> CreateEntryResult,
         entry |-> [title |-> "Bticino X8000", flow |-> "",
                    data |-> EntryData(self_data[1], acc.list)],
         sub |-> acc.sub, calls |-> acc.calls]

\* async_step_select_thermostats(user_input): [result, entry, sub, calls].
\* The entry's `flow` names the flow that created it; the action fills it in
async_step_select_thermostats(self_data, self_options, selected, statuses, sub) ==
    LET acc == SubscribeLoop(self_data[1], self_options[1], selected, statuses,
                             [list |-> <<>>, sub |-> sub, calls |-> <<>>])
    IN  [result |-> CreateEntryResult,
         entry |-> [title |-> "Bticino X8000", flow |-> "",
                    data |-> EntryData(self_data[1], acc.list)],
         sub |-> acc.sub, calls |-> acc.calls]

(* ------------------------------ actions ------------------------------- *)

\* what can happen around one invocation of async_step_get_authorize_code:
\* the exchange fails; or it succeeds and the health check fails; or both
\* succeed and the plant listing is answered with an error status, or with
\* 200 and the set of plant ids iterates in some order.  When the pasted
\* URL does not get the step as far as the exchange, only the state token
\* of the next authorization URL is left to chance
DefaultEnv(rem) ==
    [exchange |-> [ok |-> FALSE, tokens |-> None], health |-> FALSE,
     status |-> HTTP_ERROR,
     plant_ids |-> CHOOSE o \in PlantIdOrders(rem.plants) : TRUE,
     state |-> CHOOSE t \in StateTokens : TRUE]
Environments(rem, browser_url) ==
    LET d == DefaultEnv(rem)
        oks == {x \in ExchangeOutcomes : x.ok}
        retry == {[d EXCEPT !.state = t] : t \in StateTokens}
    IN  IF QueryCode(browser_url) = "" \/ QueryState(browser_url) = ""
        THEN retry
        ELSE
        retry
        \cup {[d EXCEPT !.exchange = x] : x \in oks}
        \cup {[d EXCEPT !.exchange = x, !.health = TRUE] : x \in oks}
        \cup {[d EXCEPT !.exchange = x, !.health = TRUE, !.status = HTTP_OK,
                        !.plant_ids = o] :
                 x \in oks, o \in PlantIdOrders(rem.plants)}

\* the platform invokes async_step_user: with no input when the flow is
\* started, with the submitted form when the credentials form is answered
UserStep(s) ==
    /\ s \in flows
    /\ cur_step[s] \in {"init", "user"}
    /\ \E c \in CredentialInputs, state \in StateTokens :
         LET user_input == IF cur_step[s] = "init" THEN None
                           ELSE Some(NewData(c))
             out == async_step_user(entries # <<>>, data[s], user_input, state)
         IN  /\ result' = [result EXCEPT ![s] = out.result]
             /\ data' = [data EXCEPT ![s] = out.data]
             /\ cur_step' = [cur_step EXCEPT ![s] = StepAfter(@, out.result)]
             /\ input' = [input EXCEPT ![s] =
                    [handler |-> "user", had_entries |-> entries # <<>>,
                     data_before |-> data[s], user_input |-> user_input,
                     browser_url |-> <<>>, selected |-> {}]]
             /\ submitted' = [submitted EXCEPT ![s] =
                    IF user_input = None THEN @ ELSE user_input]
    /\ calls' = [calls EXCEPT ![s] = <<>>]
    /\ UNCHANGED <<flows, entries, remote, next_webhook, next_sub,
                   thermostat_options, granted, pfVars>>

\* async_step_get_authorize_code is invoked for flow s with the pasted URL
\* browser_url, the world around it being env
GetAuthorizeCodeWith(s, browser_url, env) ==
    /\ s \in flows
    /\ cur_step[s] = "get_authorize_code"
    /\ LET out == async_step_get_authorize_code(entries # <<>>, data[s],
                        thermostat_options[s], next_webhook, remote,
                        browser_url, env)
         IN  /\ result' = [result EXCEPT ![s] = out.result]
             /\ data' = [data EXCEPT ![s] = out.data]
             /\ thermostat_options' =
                    [thermostat_options EXCEPT ![s] = out.options]
             /\ next_webhook' = out.wid
             /\ calls' = [calls EXCEPT ![s] = out.calls]
             /\ cur_step' = [cur_step EXCEPT ![s] = StepAfter(@, out.result)]
             /\ input' = [input EXCEPT ![s] =
                    [handler |-> "get_authorize_code",
                     had_entries |-> entries # <<>>, data_before |-> data[s],
                     user_input |-> None, browser_url |-> browser_url,
                     selected |-> {}]]
             /\ granted' = [granted EXCEPT ![s] =
                    IF out.calls # <<>> /\ out.calls[1].status = HTTP_OK
                    THEN env.exchange.tokens ELSE @]
    /\ UNCHANGED <<flows, entries, remote, next_sub, submitted, pfVars>>

\* the callback-URL form is answered: async_step_get_authorize_code
GetAuthorizeCodeStep(s) ==
    \E browser_url \in BrowserUrls :
        \E env \in Environments(remote, browser_url) :
            GetAuthorizeCodeWith(s, browser_url, env)

\* async_step_select_thermostats is invoked for flow s with the names
\* `selected`, the remote API answering the subscribe call of plant p with
\* statuses[p]
SelectThermostatsWith(s, selected, statuses) ==
    /\ s \in flows
    /\ cur_step[s] = "select_thermostats"
    /\ LET out == async_step_select_thermostats(data[s],
                        thermostat_options[s], selected, statuses, next_sub)
         IN  /\ result' = [result EXCEPT ![s] = out.result]
             /\ entries' = Append(entries, [out.entry EXCEPT !.flow = s])
             /\ next_sub' = out.sub
             /\ calls' = [calls EXCEPT ![s] = out.calls]
             /\ cur_step' = [cur_step EXCEPT ![s] = StepAfter(@, out.result)]
             /\ input' = [input EXCEPT ![s] =
                    [handler |-> "select_thermostats",
                     had_entries |-> entries # <<>>, data_before |-> data[s],
                     user_input |-> None, browser_url |-> <<>>,
                     selected |-> selected]]
    /\ UNCHANGED <<flows, remote, next_webhook, data, thermostat_options,
                   submitted, granted, pfVars>>

\* the device multi-select is answered with names among its options:
\* async_step_select_thermostats
SelectThermostatsStep(s) ==
    \E selected \in SUBSET Range(result[s].options),
       statuses \in [Plants -> {HTTP_CREATED, HTTP_ERROR}] :
        SelectThermostatsWith(s, selected, statuses)

\* accounts the remote API may hold: a raw plant listing and, for each
\* plant in it, how many devices its topology lists
Remotes ==
    {r \in [plants : SeqsUpTo(Plants, MaxListing),
            ndev : [Plants -> 0..MaxDevices]] :
        \A p \in Plants \ Range(r.plants) : r.ndev[p] = 0}

\* the accounts against which two flows at once are explored: one plant,
\* listed once, with one device
ConcurrentRemotes ==
    {r \in Remotes : r.plants = <<"p1">> /\ r.ndev["p1"] = 1}

\* a configuration created by an earlier, completed onboarding
ExistingEntry ==
    [title |-> "Bticino X8000", flow |-> "earlier",
     data |-> EntryData(
         [NewData(CHOOSE c \in CredentialInputs : c.client_id = "cid1")
             EXCEPT !.access_token = "tok_a", !.refresh_token = "tok_r",
                    !.access_token_expires_on = "2025-01-01T00:00:00Z"],
         <<>>)]

Init ==
    /\ \/ flows = {"s1"} /\ remote \in Remotes
       \/ flows = Sessions /\ remote \in ConcurrentRemotes
    /\ entries \in {<<>>, <<ExistingEntry>>}
    /\ next_webhook = 1
    /\ next_sub = 1
    /\ cur_step = [s \in Sessions |-> "init"]
    /\ result = [s \in Sessions |-> NoResult]
    /\ data = [s \in Sessions |-> None]
    /\ thermostat_options = [s \in Sessions |-> None]
    /\ calls = [s \in Sessions |-> <<>>]
    /\ input = [s \in Sessions |-> NoInput]
    /\ submitted = [s \in Sessions |-> None]
    /\ granted = [s \in Sessions |-> None]
    /\ pf_programs = <<>>
    /\ pf_filtered = None

Next ==
    \E s \in Sessions :
        \/ UserStep(s)
        \/ GetAuthorizeCodeStep(s)
        \/ SelectThermostatsStep(s)

Spec == Init /\ [][Next]_vars


(* ---------------- the program filter on its own ----------------------- *)

\* program lists the remote API may answer with
ProgramLists ==
    SeqsUpTo({Program(n) : n \in 0..MaxProgramNumber}, MaxPrograms)

InitPF ==
    /\ flows = {}
    /\ entries = <<>>
    /\ remote = [plants |-> <<>>, ndev |-> [p \in Plants |-> 0]]
    /\ next_webhook = 1
    /\ next_sub = 1
    /\ cur_step = [s \in Sessions |-> "init"]
    /\ result = [s \in Sessions |-> NoResult]
    /\ data = [s \in Sessions |-> None]
    /\ thermostat_options = [s \in Sessions |-> None]
    /\ calls = [s \in Sessions |-> <<>>]
    /\ input = [s \in Sessions |-> NoInput]
    /\ submitted = [s \in Sessions |-> None]
    /\ granted = [s \in Sessions |-> None]
    /\ pf_programs \in ProgramLists
    /\ pf_filtered = None

\* get_programs_from_api is called once, the API answering pf_programs
ProgramFilterStep ==
    /\ pf_filtered = None
    /\ pf_filtered' =
           Some(get_programs_from_api("p1", Device("p1", 1).id, pf_programs).ret)
    /\ UNCHANGED <<flows, entries, remote, next_webhook, next_sub, flowVars,
                   pf_programs>>

NextPF == ProgramFilterStep

SpecPF == InitPF /\ [][NextPF]_vars


(* ===================== properties of the flow ========================= *)

\* the devices the topology queries of the listed plants return
Discovered ==
    UNION {Range(Topology(remote, p)) : p \in Range(remote.plants)}

\* the entries a flow has created
EntriesOf(s) == SelectSeq(entries, LAMBDA e : e.flow = s)

\* the calls of a flow's last handler to one operation of the remote API
CallsTo(s, op) == SelectSeq(calls[s], LAMBDA c : c.op = op)

Created(s) == result[s].type = "create_entry"
PromptShown(s) ==
    result[s].type = "form" /\ result[s].id = "select_thermostats"
CallbackPrompt(s) ==
    result[s].type = "form" /\ result[s].id = "get_authorize_code"

\* the candidates of a flow, in the order of its dict
Candidates(s) == thermostat_options[s][1]
\* the candidates whose name is in the submitted selection, in that order
Chosen(s) ==
    SelectSeq(Candidates(s), LAMBDA c : c.value.name \in input[s].selected)

\* every subscribe call of the flow's last handler was answered with 201
AllSubscribed(s) ==
    \A i \in DOMAIN calls[s] :
        calls[s][i].op = "set_subscribe_C2C_notifications"
            => calls[s][i].status = HTTP_CREATED

\* C1: after a fully successful run the record's SelectedThermostat list
\* holds exactly the discovered devices whose display name the user
\* selected, each once and each with the subscription id its subscribe call
\* returned.
C1_RecordHoldsSelectedDiscovered ==
    \A s \in Sessions :
        (Created(s) /\ AllSubscribed(s)) =>
            /\ Len(EntriesOf(s)) = 1
            /\ LET list == EntriesOf(s)[1].data.selected_thermostats
                   subs == CallsTo(s, "set_subscribe_C2C_notifications")
               IN  /\ {list[i].value.id : i \in DOMAIN list} =
                          {d.id : d \in {x \in Discovered :
                                            x.name \in input[s].selected}}
                   /\ \A i, j \in DOMAIN list :
                          list[i].value.id = list[j].value.id => i = j
                   /\ Len(subs) = Len(list)
                   /\ \A i \in DOMAIN list :
                          /\ subs[i].sid # None
                          /\ list[i].value.subscription_id = subs[i].sid

\* C2: whenever the selection prompt is shown, the candidate set holds one
\* candidate per discovered device, and the prompt's options and its
\* pre-checked default are the names of every discovered device.
C2_PromptOffersEveryDevice ==
    \A s \in Sessions :
        PromptShown(s) =>
            /\ thermostat_options[s] # None
            /\ {Candidates(s)[i].value.id : i \in DOMAIN Candidates(s)} =
                   {d.id : d \in Discovered}
            /\ Len(Candidates(s)) = Cardinality(Discovered)
            /\ Range(result[s].options) = {d.name : d \in Discovered}
            /\ Range(result[s].default) = {d.name : d \in Discovered}

\* C3: when a configuration exists as the Start step is invoked, with or
\* without submitted input, the step aborts with the single-instance
\* conflict, shows no prompt and makes no remote call.
C3_SecondInstanceAborts ==
    \A s \in Sessions :
        (input[s].handler = "user" /\ input[s].had_entries) =>
            /\ result[s].type = "abort"
            /\ result[s].id = "single_instance_allowed"
            /\ calls[s] = <<>>
            /\ cur_step[s] = "finished"
            /\ data[s] = input[s].data_before

\* the Start step was invoked with the submitted credentials while a
\* configuration existed, created after the credentials form was shown
C3_Witness ==
    \E s \in Sessions :
        /\ input[s].handler = "user"
        /\ input[s].had_entries
        /\ input[s].user_input # None
        /\ result[s].type = "abort"

\* C4: at most one ConfigRecord exists in every reachable state.
C4_AtMostOneRecord == Len(entries) <= 1


\* the pasted URL has no non-empty value for `key`
Lacks(browser_url, key) ==
    ~\E i \in DOMAIN browser_url :
        browser_url[i].k = key /\ browser_url[i].v # ""

\* the flow's last handler was the callback step, given a URL whose code
\* or state is missing or empty
InvalidCallback(s) ==
    /\ input[s].handler = "get_authorize_code"
    /\ Lacks(input[s].browser_url, "code") \/ Lacks(input[s].browser_url, "state")

\* C5: with no configuration existing, a callback URL whose code or state
\* is missing or empty makes no remote call, ends in no error or abort and
\* leaves the flow at the callback prompt, ready to be answered again.
C5_InvalidCallbackReprompts ==
    \A s \in Sessions :
        (InvalidCallback(s) /\ ~input[s].had_entries) =>
            /\ CallbackPrompt(s)
            /\ cur_step[s] = "get_authorize_code"
            /\ calls[s] = <<>>
            /\ ENABLED GetAuthorizeCodeStep(s)

\* an invalid callback was submitted with no configuration existing, and
\* the callback prompt is shown again, its URL built from the Credentials
C5_Witness ==
    \E s \in Sessions :
        /\ InvalidCallback(s)
        /\ ~input[s].had_entries
        /\ CallbackPrompt(s)
        /\ result[s].auth_url.client_id = data[s][1].client_id

\* the flow's last handler was the callback step and its token exchange
\* failed
ExchangeFailed(s) ==
    /\ input[s].handler = "get_authorize_code"
    /\ \E i \in DOMAIN calls[s] :
           /\ calls[s][i].op = "exchange_code_for_tokens"
           /\ calls[s][i].status # HTTP_OK

CredentialsOf(d) ==
    [client_id |-> d.client_id, client_secret |-> d.client_secret,
     subscription_key |-> d.subscription_key, external_url |-> d.external_url]
TokenSetOf(d) ==
    [access_token |-> d.access_token, refresh_token |-> d.refresh_token,
     access_token_expires_on |-> d.access_token_expires_on]

\* the failed attempt made the exchange call and no other, stored no
\* TokenSet, kept the Credentials and discovered nothing
OnlyTheExchangeWasTried(s) ==
    /\ Len(calls[s]) = 1
    /\ TokenSetOf(data[s][1]) = TokenSetOf(input[s].data_before[1])
    /\ CredentialsOf(data[s][1]) = CredentialsOf(input[s].data_before[1])
    /\ thermostat_options[s] = None

\* the Start step, re-entered with the collected Credentials, re-prompted
RepromptedWithCredentials(s) ==
    /\ CallbackPrompt(s)
    /\ cur_step[s] = "get_authorize_code"
    /\ result[s].auth_url.client_id = input[s].data_before[1].client_id

\* C6 as stated: a failed token exchange never aborts the flow; it always
\* re-prompts through the Start step, with only the exchange call made and
\* no TokenSet stored.
C6_FailedExchangeNeverAborts ==
    \A s \in Sessions :
        ExchangeFailed(s) =>
            OnlyTheExchangeWasTried(s) /\ RepromptedWithCredentials(s)

\* C6 amended: a failed token exchange makes no further call, stores no
\* TokenSet and re-enters the Start step with the collected Credentials;
\* that step re-prompts, unless a configuration exists by then, when it
\* aborts with the single-instance conflict.
C6_FailedExchangeReentersStart ==
    \A s \in Sessions :
        ExchangeFailed(s) =>
            /\ OnlyTheExchangeWasTried(s)
            /\ IF input[s].had_entries
               THEN result[s] = async_abort("single_instance_allowed")
               ELSE RepromptedWithCredentials(s)

\* the exchange failed with no configuration existing and the user was
\* re-prompted
C6_Witness ==
    \E s \in Sessions :
        /\ ExchangeFailed(s)
        /\ ~input[s].had_entries
        /\ RepromptedWithCredentials(s)
        /\ data[s][1].code # Missing

\* the flow's last handler was the callback step and its health check
\* answered false
HealthFailed(s) ==
    /\ input[s].handler = "get_authorize_code"
    /\ \E i \in DOMAIN calls[s] :
           /\ calls[s][i].op = "check_api_endpoint_health"
           /\ calls[s][i].status # HTTP_OK

\* no handler of the flow can be invoked any more
FlowOver(s) ==
    /\ cur_step[s] = "finished"
    /\ ~ENABLED (UserStep(s) \/ GetAuthorizeCodeStep(s)
                 \/ SelectThermostatsStep(s))

\* C7: a failed health check right after a successful exchange aborts the
\* flow for good: the exchange and the health check are the only calls, no
\* prompt is shown, no candidate is kept and the flow has no ConfigRecord.
C7_HealthFailureAborts ==
    \A s \in Sessions :
        HealthFailed(s) =>
            /\ result[s] = async_abort("Auth Failed!")
            /\ FlowOver(s)
            /\ Len(calls[s]) = 2
            /\ calls[s][1].op = "exchange_code_for_tokens"
            /\ calls[s][1].status = HTTP_OK
            /\ calls[s][2].op = "check_api_endpoint_health"
            /\ thermostat_options[s] = None
            /\ EntriesOf(s) = <<>>

\* the health check failed after the exchange had stored a TokenSet
C7_Witness ==
    \E s \in Sessions :
        /\ HealthFailed(s)
        /\ result[s].type = "abort"
        /\ data[s][1].access_token # Missing


\* the subscribe calls of the flow's last handler
SubscribeCalls(s) == CallsTo(s, "set_subscribe_C2C_notifications")

\* C8: whatever is selected, a non-201 answer to one device's subscribe
\* call yields a null subscription id for that device and nothing else:
\* one subscribe call is made for every selected candidate, in order, and
\* the record is persisted with every selected candidate, a failed one with
\* a null subscription_id, the others with the id their call returned.
C8_SubscriptionFailureIsPerDevice ==
    \A s \in Sessions :
        Created(s) =>
            /\ Len(EntriesOf(s)) = 1
            /\ LET list == EntriesOf(s)[1].data.selected_thermostats
                   subs == SubscribeCalls(s)
                   chosen == Chosen(s)
               IN  /\ Len(list) = Len(chosen)
                   /\ Len(subs) = Len(chosen)
                   /\ Len(calls[s]) = Len(subs)
                   /\ \A i \in DOMAIN chosen :
                          /\ list[i].key = chosen[i].key
                          /\ list[i].value.id = chosen[i].value.id
                          /\ list[i].value.name = chosen[i].value.name
                          /\ subs[i].args[1] = chosen[i].key
                          /\ IF subs[i].status = HTTP_CREATED
                             THEN /\ subs[i].sid # None
                                  /\ list[i].value.subscription_id = subs[i].sid
                             ELSE list[i].value.subscription_id = None

\* two devices were selected, the first one's subscribe call failed and the
\* second one's succeeded
C8_Witness ==
    \E s \in Sessions :
        /\ Created(s)
        /\ Len(SubscribeCalls(s)) = 2
        /\ SubscribeCalls(s)[1].status # HTTP_CREATED
        /\ SubscribeCalls(s)[2].status = HTTP_CREATED
        /\ Len(EntriesOf(s)) = 1
        /\ Len(EntriesOf(s)[1].data.selected_thermostats) = 2

\* the flow's last handler was the callback step and it went through
\* discovery: the plant listing was answered with 200
DiscoveryRan(s) ==
    /\ input[s].handler = "get_authorize_code"
    /\ \E i \in DOMAIN calls[s] :
           calls[s][i].op = "get_plants" /\ calls[s][i].status = HTTP_OK

\* how many topology queries the flow's last handler made for plant p
TopologyQueries(s, p) ==
    Cardinality({i \in DOMAIN calls[s] :
                    calls[s][i].op = "get_topology" /\ calls[s][i].args[1] = p})

\* C9: for every raw plant listing, discovery queries the topology once
\* for each plant identifier in the listing, however often it is listed,
\* and never for an identifier that is not in it.
C9_TopologyOncePerPlant ==
    \A s \in Sessions :
        DiscoveryRan(s) =>
            \A p \in Plants :
                TopologyQueries(s, p) =
                    IF \E i \in DOMAIN remote.plants : remote.plants[i] = p
                    THEN 1 ELSE 0

\* discovery ran over a listing with the same plant in it twice
C9_Witness ==
    \E s \in Sessions :
        /\ DiscoveryRan(s)
        /\ \E i, j \in DOMAIN remote.plants :
               i # j /\ remote.plants[i] = remote.plants[j]
        /\ PromptShown(s)

\* the webhook id a subscribe call registered
RegisteredWebhook(call) == call.args[2].EndPointUrl.webhook_id

\* the SelectedThermostat list of the record the flow created
RecordList(s) == EntriesOf(s)[1].data.selected_thermostats

\* C11: the record holds, and a subscribe call is made for, no device but
\* the candidates whose display name is in the submitted selection, and
\* every such candidate is in the record.
C11_OnlySelectedNamesPersisted ==
    \A s \in Sessions :
        Created(s) =>
            /\ \A i \in DOMAIN RecordList(s) :
                   /\ RecordList(s)[i].value.name \in input[s].selected
                   /\ \E j \in DOMAIN Candidates(s) :
                          /\ Candidates(s)[j].key = RecordList(s)[i].key
                          /\ Candidates(s)[j].value.id = RecordList(s)[i].value.id
            /\ \A i \in DOMAIN SubscribeCalls(s) :
                   \E j \in DOMAIN Candidates(s) :
                       /\ Candidates(s)[j].value.name \in input[s].selected
                       /\ Candidates(s)[j].key = SubscribeCalls(s)[i].args[1]
                       /\ Candidates(s)[j].value.webhook_id =
                              RegisteredWebhook(SubscribeCalls(s)[i])
            /\ \A j \in DOMAIN Candidates(s) :
                   Candidates(s)[j].value.name \in input[s].selected =>
                       \E i \in DOMAIN RecordList(s) :
                           /\ RecordList(s)[i].key = Candidates(s)[j].key
                           /\ RecordList(s)[i].value.id = Candidates(s)[j].value.id

\* of two candidates with different names one was selected: the record
\* holds it alone and one subscribe call was made
C11_Witness ==
    \E s \in Sessions :
        /\ Created(s)
        /\ Len(Candidates(s)) = 2
        /\ Candidates(s)[1].value.name # Candidates(s)[2].value.name
        /\ Cardinality(input[s].selected) = 1
        /\ Len(RecordList(s)) = 1
        /\ Len(SubscribeCalls(s)) = 1

\* the flow is at one of its forms, has not been started, or has aborted
BeforeCompletion(s) ==
    \/ cur_step[s] \in {"init", "user", "get_authorize_code", "select_thermostats"}
    \/ result[s].type = "abort"

\* C12: a flow writes its ConfigRecord at most once, in the final step and
\* after the subscribe call of every selected device: while the flow is at
\* any earlier step, or has aborted, it has no record, and a record that
\* exists carries the answer of one subscribe call per selected device.
C12_RecordOnlyAtCompletion ==
    \A s \in Sessions :
        /\ Len(EntriesOf(s)) <= 1
        /\ BeforeCompletion(s) => EntriesOf(s) = <<>>
        /\ EntriesOf(s) # <<>> =>
               /\ Created(s)
               /\ input[s].handler = "select_thermostats"
               /\ FlowOver(s)
               /\ Len(SubscribeCalls(s)) = Len(Chosen(s))
               /\ Len(RecordList(s)) = Len(Chosen(s))
               /\ \A i \in DOMAIN RecordList(s) :
                      RecordList(s)[i].value.subscription_id =
                          SubscribeCalls(s)[i].sid

\* one flow has completed with a record of one device while another, begun
\* before that, is still at its selection prompt with no record
C12_Witness ==
    \E s, t \in Sessions :
        /\ Created(s)
        /\ Len(EntriesOf(s)) = 1
        /\ Len(RecordList(s)) = 1
        /\ cur_step[t] = "select_thermostats"
        /\ EntriesOf(t) = <<>>

\* the program-list queries the flow's last handler made for device d
ProgramQueries(s, d) ==
    {i \in DOMAIN calls[s] :
        /\ calls[s][i].op = "get_chronothermostat_programlist"
        /\ calls[s][i].args = <<d.id[1], d.id>>}

\* the listed plants whose topology holds a device
PlantsWithDevices == {p \in Range(remote.plants) : remote.ndev[p] > 0}

\* C13: when the selection prompt is shown, the handler showing it has
\* queried the topology of every distinct plant of the listing and the
\* program list of every device of those topologies, and the candidates
\* come from every plant that has a device, never from some only.
C13_PromptAfterFullDiscovery ==
    \A s \in Sessions :
        PromptShown(s) =>
            /\ input[s].handler = "get_authorize_code"
            /\ \A p \in Range(remote.plants) : TopologyQueries(s, p) >= 1
            /\ \A d \in Discovered : ProgramQueries(s, d) # {}
            /\ \A i \in DOMAIN calls[s] : calls[s][i].status = HTTP_OK
            /\ {Candidates(s)[j].key : j \in DOMAIN Candidates(s)} =
                   PlantsWithDevices

\* the prompt is shown over a listing of two plants with two devices each
C13_Witness ==
    \E s \in Sessions :
        /\ PromptShown(s)
        /\ Cardinality(Range(remote.plants)) = 2
        /\ \A p \in Range(remote.plants) : remote.ndev[p] = 2
        /\ Len(CallsTo(s, "get_topology")) = 2
        /\ Len(CallsTo(s, "get_chronothermostat_programlist")) = 4

\* the non-empty values a callback URL may carry as its state: a token the
\* flow generated, and one it did not
CallbackStates == StateTokens \cup {"XYZ"}

\* the pasted URL with the value of its state parameter replaced
WithState(browser_url, v) ==
    [i \in DOMAIN browser_url |->
        IF browser_url[i].k = "state" THEN Pair("state", v) ELSE browser_url[i]]

\* the pasted URLs carrying a non-empty code and a non-empty state
CompleteCallbacks ==
    {u \in BrowserUrls : ~Lacks(u, "code") /\ ~Lacks(u, "state")}

\* what the callback step of flow s would return for a pasted URL, the
\* world around it being env
CallbackOutcome(s, browser_url, env) ==
    async_step_get_authorize_code(entries # <<>>, data[s], thermostat_options[s],
                                  next_webhook, remote, browser_url, env)

\* C14: the state returned in the callback is compared with nothing: for a
\* flow awaiting its callback, two pasted URLs that differ only in their
\* non-empty state value, be it the generated token or another, give the
\* same result, the same remote calls and the same stored data.
C14_CallbackStateIgnored ==
    \A s \in Sessions :
        (s \in flows /\ cur_step[s] = "get_authorize_code") =>
            \A u \in CompleteCallbacks, v \in CallbackStates :
                \A env \in Environments(remote, u)
                            \cup Environments(remote, WithState(u, v)) :
                    CallbackOutcome(s, u, env) =
                        CallbackOutcome(s, WithState(u, v), env)

\* a callback whose state is no token the flow generated was accepted and
\* the flow went on to the selection prompt
C14_Witness ==
    \E s \in Sessions :
        /\ input[s].handler = "get_authorize_code"
        /\ ~Lacks(input[s].browser_url, "state")
        /\ \A i \in DOMAIN input[s].browser_url :
               input[s].browser_url[i].k = "state" =>
                   input[s].browser_url[i].v \notin StateTokens
        /\ PromptShown(s)
        /\ Len(Candidates(s)) >= 1

\* position i of the flow's call log holds the topology query of a plant
\* and the positions right after it hold, in the topology's order, the
\* program-list queries of that plant's devices
PlantQueriedInTurn(s, i) ==
    LET p == calls[s][i].args[1]
    IN  /\ i + remote.ndev[p] <= Len(calls[s])
        /\ \A k \in 1..remote.ndev[p] :
               /\ calls[s][i + k].op = "get_chronothermostat_programlist"
               /\ calls[s][i + k].args = <<p, Device(p, k).id>>

\* position j of the flow's call log, a program-list query, belongs to the
\* last topology query before it
AfterItsTopology(s, j) ==
    \E i \in 1..(j - 1) :
        /\ calls[s][i].op = "get_topology"
        /\ calls[s][i].args[1] = calls[s][j].args[1]
        /\ \A k \in (i + 1)..(j - 1) :
               calls[s][k].op = "get_chronothermostat_programlist"

\* C15: a flow's remote calls are made one after another.  In discovery
\* the topology query of a plant is followed by the program-list queries
\* of its devices, all of them before the next plant's topology query; in
\* the final step nothing but subscribe calls is made, one per selected
\* device, and the record lists the devices in the order of those calls.
C15_CallsOneAfterAnother ==
    \A s \in Sessions :
        /\ DiscoveryRan(s) =>
               \A j \in DOMAIN calls[s] :
                   /\ calls[s][j].op = "get_topology" => PlantQueriedInTurn(s, j)
                   /\ calls[s][j].op = "get_chronothermostat_programlist"
                          => AfterItsTopology(s, j)
        /\ Created(s) =>
               /\ calls[s] = SubscribeCalls(s)
               /\ Len(calls[s]) = Len(RecordList(s))
               /\ \A i \in DOMAIN RecordList(s) :
                      /\ calls[s][i].args[1] = RecordList(s)[i].key
                      /\ RegisteredWebhook(calls[s][i]) =
                             RecordList(s)[i].value.webhook_id

\* two plants of two devices each were discovered, the second-named plant
\* first, and both candidates selected: the record lists them in that order
C15_Witness ==
    \E s \in Sessions :
        /\ Created(s)
        /\ Len(RecordList(s)) = 2
        /\ RecordList(s)[1].key = "p2"
        /\ RecordList(s)[2].key = "p1"
        /\ \A p \in Plants : remote.ndev[p] = 2
        /\ calls[s][1].args[1] = "p2"

\* the flow holds candidates: its discovery has run
HasCandidates(s) == thermostat_options[s] # None

\* C17: generate_id never returning the same id twice, the candidates of a
\* flow carry webhook ids that differ from one another, and each id is
\* there, minted by the generator, as soon as discovery has put the
\* candidate in the set: at the selection prompt, before anything is
\* selected.  What the record later holds is that id.
C17_WebhookIdsUniqueAndEarly ==
    \A s \in Sessions :
        HasCandidates(s) =>
            /\ \A i, j \in DOMAIN Candidates(s) :
                   i # j => Candidates(s)[i].value.webhook_id #
                                Candidates(s)[j].value.webhook_id
            /\ \A i \in DOMAIN Candidates(s) :
                   Candidates(s)[i].value.webhook_id \in 1..(next_webhook - 1)
            /\ Created(s) =>
                   \A i \in DOMAIN RecordList(s) :
                       \E j \in DOMAIN Candidates(s) :
                           /\ Candidates(s)[j].key = RecordList(s)[i].key
                           /\ Candidates(s)[j].value.webhook_id =
                                  RecordList(s)[i].value.webhook_id

\* the selection prompt is shown over two candidates, nothing selected yet,
\* each candidate the second device of its plant
C17_Witness ==
    \E s \in Sessions :
        /\ PromptShown(s)
        /\ input[s].selected = {}
        /\ Len(Candidates(s)) = 2
        /\ Candidates(s)[1].value.webhook_id = 2
        /\ Candidates(s)[2].value.webhook_id = 4

\* external_url + "/api/webhook/" + webhook_id
DeliveryUrl(external_url, webhook_id) ==
    [base |-> external_url, path |-> "/api/webhook/", webhook_id |-> webhook_id]

\* C18: for every device of a created record, the subscribe call made for
\* it named the plant the device belongs to and registered the delivery URL
\* made of the record's external_url, "/api/webhook/" and the webhook_id
\* the record holds for that device.
C18_RegisteredWebhookIsPersisted ==
    \A s \in Sessions :
        Created(s) =>
            /\ Len(SubscribeCalls(s)) = Len(RecordList(s))
            /\ \A i \in DOMAIN RecordList(s) :
                   /\ SubscribeCalls(s)[i].args[1] = RecordList(s)[i].value.id[1]
                   /\ SubscribeCalls(s)[i].args[2] =
                          [EndPointUrl |->
                              DeliveryUrl(EntriesOf(s)[1].data.external_url,
                                          RecordList(s)[i].value.webhook_id)]

\* a record of two devices was created by a flow given the second
\* external_url, one subscribe call answered 201 and one not
C18_Witness ==
    \E s \in Sessions :
        /\ Created(s)
        /\ Len(RecordList(s)) = 2
        /\ EntriesOf(s)[1].data.external_url = "https://ha2"
        /\ RecordList(s)[1].value.subscription_id # None
        /\ RecordList(s)[2].value.subscription_id = None

\* the flow's last handler was the callback step and it asked for the
\* plant listing
ListingAsked(s) ==
    /\ input[s].handler = "get_authorize_code"
    /\ \E i \in DOMAIN calls[s] : calls[s][i].op = "get_plants"

\* C19: once the exchange and the health check have succeeded, the callback
\* step ends in a defined outcome whatever status the plant listing
\* returns: the selection prompt over a defined candidate set, an abort or
\* a re-prompt, never an unhandled error.
C19_ListingStatusAlwaysHandled ==
    \A s \in Sessions :
        ListingAsked(s) =>
            /\ result[s].type \in {"form", "abort"}
            /\ PromptShown(s) => HasCandidates(s)

\* C20: the Credentials a flow holds are at every moment those the user
\* submitted at Start, re-prompts or not, and a created record carries
\* those Credentials and the TokenSet the flow's successful exchange
\* returned.
C20_RecordKeepsCredentialsAndTokens ==
    \A s \in Sessions :
        /\ data[s] # None =>
               /\ submitted[s] # None
               /\ CredentialsOf(data[s][1]) = CredentialsOf(submitted[s][1])
        /\ Created(s) =>
               /\ granted[s] # None
               /\ CredentialsOf(EntriesOf(s)[1].data) =
                      CredentialsOf(submitted[s][1])
               /\ TokenSetOf(EntriesOf(s)[1].data) = granted[s][1]

\* a flow given the second set of credentials has created its record,
\* its tokens those of the exchange
C20_Witness ==
    \E s \in Sessions :
        /\ Created(s)
        /\ submitted[s] # None
        /\ submitted[s][1].client_id = "cid2"
        /\ EntriesOf(s)[1].data.client_secret = "sec2"
        /\ EntriesOf(s)[1].data.access_token = "tok_a"

(* ---------- the flow when the user and the remote API cooperate -------- *)

\* the worlds in which the token exchange, the health check and the plant
\* listing all succeed
SuccessfulEnvironments(rem, browser_url) ==
    {env \in Environments(rem, browser_url) :
        env.exchange.ok /\ env.health /\ env.status = HTTP_OK}

\* the callback step given a URL with code and state, the exchange, the
\* health check and the plant listing all succeeding
SuccessfulCallbackStep(s) ==
    \E browser_url \in CompleteCallbacks :
        \E env \in SuccessfulEnvironments(remote, browser_url) :
            GetAuthorizeCodeWith(s, browser_url, env)

\* the selection step with every subscribe call answered 201
SuccessfulSelectStep(s) ==
    \E selected \in SUBSET Range(result[s].options) :
        SelectThermostatsWith(s, selected, [p \in Plants |-> HTTP_CREATED])

NextLive ==
    \E s \in Sessions :
        \/ UserStep(s)
        \/ SuccessfulCallbackStep(s)
        \/ SuccessfulSelectStep(s)

\* the flow is at its callback form
AtCallbackForm(s) == s \in flows /\ cur_step[s] = "get_authorize_code"

\* a form that is shown is answered: the platform runs the handler of the
\* step a flow is at whenever the user submits.  Weak fairness of each step
\* of each flow; that of the callback step is written out, the step being
\* enabled exactly while the flow is at its callback form
FairLive ==
    \A s \in Sessions :
        /\ WF_vars(UserStep(s))
        /\ WF_vars(SuccessfulSelectStep(s))
        /\ []<>(~AtCallbackForm(s)) \/ []<><<SuccessfulCallbackStep(s)>>_vars

SpecLive == Init /\ [][NextLive]_vars /\ FairLive

\* the user has submitted credentials at Start with no configuration
\* existing
CredentialsAccepted(s) ==
    /\ s \in flows
    /\ input[s].handler = "user"
    /\ input[s].user_input # None
    /\ ~input[s].had_entries

\* the flow is over, having persisted exactly one record
Completed(s) ==
    /\ Created(s)
    /\ cur_step[s] = "finished"
    /\ Len(EntriesOf(s)) = 1

\* C16: once credentials have been submitted with no configuration
\* existing, a flow whose callback URL, selection and remote calls all
\* succeed eventually completes, having persisted exactly one record;
\* the discovery and subscription loops end for every listing and topology.
C16_CooperativeFlowCompletes ==
    \A s \in Sessions : CredentialsAccepted(s) ~> Completed(s)

\* a flow completed over two plants, both candidates subscribed
C16_Witness ==
    \E s \in Sessions :
        /\ Completed(s)
        /\ Len(RecordList(s)) = 2
        /\ \A i \in DOMAIN RecordList(s) :
               RecordList(s)[i].value.subscription_id # None
        /\ granted[s] # None

(* ================= properties of the program filter =================== *)

\* the positions of the programs of a list that are not numbered 0
Kept(programs) ==
    {i \in DOMAIN programs : programs[i].number # MANUAL_PROGRAM}

\* C10: the program filter returns exactly the programs whose number is not
\* 0, in their original relative order: the k-th program returned is the
\* k-th program of the API's list that is not numbered 0.
C10_FilterDropsProgramZero ==
    pf_filtered # None =>
        LET out == pf_filtered[1]
        IN  /\ Len(out) = Cardinality(Kept(pf_programs))
            /\ \A k \in DOMAIN out :
                   /\ out[k].number # MANUAL_PROGRAM
                   /\ \E i \in Kept(pf_programs) :
                          /\ Cardinality({j \in Kept(pf_programs) : j <= i}) = k
                          /\ out[k] = pf_programs[i]

\* the filter ran on a list with one program numbered 0 between two others
\* of different numbers, and returned those two
C10_Witness ==
    /\ pf_filtered # None
    /\ Len(pf_programs) = 3
    /\ pf_programs[2].number = MANUAL_PROGRAM
    /\ pf_programs[1].number # MANUAL_PROGRAM
    /\ pf_programs[3].number # MANUAL_PROGRAM
    /\ pf_programs[1].number # pf_programs[3].number
    /\ Len(pf_filtered[1]) = 2

====
